---- MODULE Spec2Model ----
(***************************************************************************)
(* Expression arena (src/src/ast/expressions.rs) and Pratt parser          *)
(* (src/src/parser/expressions.rs) of wrought.                             *)
(*                                                                         *)
(* The parser is modelled as a stack machine: one frame per active call of *)
(* pratt_parse, parse_parenthetical or parse_call; the non-recursive       *)
(* helpers (parse_ident_expr, parse_literal, try_parse_bin_op) run inside  *)
(* the step that calls them.  Every call site propagates errors with `?`,  *)
(* so an error unwinds the whole stack in the step that raises it.         *)
(***************************************************************************)
EXTENDS Integers, Sequences, FiniteSets, TLC

VARIABLES
    tokens,   \* the token stream of the parse in progress, each token with its span
    pos,      \* cursor: number of tokens consumed
    data,     \* the ExpressionData store
    stack,    \* active calls of the parser, innermost last
    ret,      \* Ok(handle) just returned by the innermost call, NoId if none
    status,   \* "ready", "running", "ok", "err", "panic"
    result,   \* the handle parse_expression returned
    err,      \* the ParserError parse_expression returned
    parses,   \* parse_expression calls made on this store
    before,   \* the store as it was when the current parse began
    prev,     \* outcome of the previous parse on this store
    cmp       \* the last context_eq evaluation: operands and verdict

vars == <<tokens, pos, data, stack, ret, status, result, err, parses, before, prev, cmp>>

(***************************************************************************)
(* Bounds of the model.                                                    *)
(***************************************************************************)
MaxLen == 2      \* inputs over the full token alphabet have at most this many tokens
MaxOps == 2      \* operator chains "0 op 1 op 2 ..." have at most this many operators
MaxArgs == 3     \* calls "f(e1, ..., en)" in the input have at most this many arguments
MaxMixed == 4    \* inputs over the punctuation alphabet have at most this many tokens
MaxParses == 2   \* parse_expression calls made on one store

NoId == -1       \* "no handle": the register / result holds no ExpressionId

(***************************************************************************)
(* Span model (crate::ast::{Span, merge}).                                 *)
(***************************************************************************)
Min(a, b) == IF a <= b THEN a ELSE b

Max(a, b) == IF a >= b THEN a ELSE b

Span(s, e) == [start |-> s, end |-> e]

merge(a, b) == Span(Min(a.start, b.start), Max(a.end, b.end))

(***************************************************************************)
(* Tokens (crate::lexer::Token), as far as this parser looks at them.      *)
(***************************************************************************)
BinOpTokens ==
    {"LogicalOr", "LogicalAnd", "BitOr", "BitXor", "BitAnd", "EQ", "NEQ",
     "LT", "LTE", "GT", "GTE", "BitShiftL", "BitShiftR", "ArithShiftR",
     "Add", "Sub", "Mult", "Div", "Mod"}

IntLiteralTokens == {"DecIntLiteral", "BinLiteral", "HexLiteral"}

Tok(k) == [kind |-> k]

Ident(n) == [kind |-> "Identifier", name |-> n]

IntTok(k, v) == [kind |-> k, value |-> v]

FloatTok(x) == [kind |-> "DecFloatLiteral", float |-> x]

StringTok(t) == [kind |-> "StringLiteral", text |-> t]

OperandAtoms ==
    {Ident("f"), Ident("a"), Ident("b"),
     IntTok("DecIntLiteral", 0), IntTok("DecIntLiteral", 1),
     IntTok("BinLiteral", 2), IntTok("HexLiteral", 3),
     FloatTok("1.5"), StringTok("s")}

AllAtoms ==
    OperandAtoms \cup {Tok("LParen"), Tok("RParen"), Tok("Comma"), Tok("Invert")}
                 \cup {Tok(k) : k \in BinOpTokens}

MixedAtoms ==
    {Ident("f"), Ident("a"), IntTok("DecIntLiteral", 1), StringTok("s"),
     Tok("LParen"), Tok("RParen"), Tok("Comma"), Tok("Add")}

\* argument sources of the calls: operands, "a + 1", "( a )", "f ( b )"
ArgSources ==
    {<<Ident("a")>>, <<Ident("b")>>, <<IntTok("DecIntLiteral", 1)>>,
     <<Ident("a"), Tok("Add"), IntTok("DecIntLiteral", 1)>>,
     <<Tok("LParen"), Ident("a"), Tok("RParen")>>,
     <<Ident("f"), Tok("LParen"), Ident("b"), Tok("RParen")>>}

SeqsUpTo(S, n) == UNION {[1..k -> S] : k \in 0..n}

\* "0 op1 1 op2 2 ...": operands are the decimal literals 0, 1, 2, ...
Chain(ops) ==
    [i \in 1..(2 * Len(ops) + 1) |->
        IF i % 2 = 1 THEN IntTok("DecIntLiteral", (i - 1) \div 2)
                     ELSE Tok(ops[i \div 2])]

\* "e1 , e2 , ... , en"
RECURSIVE CommaSeparated(_)
CommaSeparated(args) ==
    IF args = <<>> THEN <<>>
    ELSE IF Len(args) = 1 THEN args[1]
    ELSE args[1] \o <<Tok("Comma")>> \o CommaSeparated(Tail(args))

\* "f ( e1 , e2 , ... , en )"
CallSource(args) ==
    <<Ident("f"), Tok("LParen")>> \o CommaSeparated(args) \o <<Tok("RParen")>>

Sources ==
    SeqsUpTo(AllAtoms, MaxLen)
    \cup SeqsUpTo(MixedAtoms, MaxMixed)
    \cup {Chain(ops) : ops \in (SeqsUpTo(BinOpTokens, MaxOps) \ {<<>>})}
    \cup {CallSource(args) : args \in SeqsUpTo(ArgSources, MaxArgs)}

\* The lexer hands every token its span; tokens are one column wide and one
\* column apart, the first one at column Origin.
Origin == 2 * MaxParses

Lex(src) ==
    [i \in 1..Len(src) |->
        [tok |-> src[i], span |-> Span(Origin + 2 * (i - 1), Origin + 2 * (i - 1) + 1)]]

\* The same token sequence between a '(' two columns before it and a ')'
\* two columns after it.
Parenthesize(ts) ==
    LET first == IF ts = <<>> THEN Origin ELSE ts[1].span.start
        last  == IF ts = <<>> THEN Origin - 2 ELSE ts[Len(ts)].span.start
    IN  <<[tok |-> Tok("LParen"), span |-> Span(first - 2, first - 1)]>>
        \o ts
        \o <<[tok |-> Tok("RParen"), span |-> Span(last + 2, last + 3)]>>

(***************************************************************************)
(* Token cursor (crate::parser::ParseInput): `pos` tokens are consumed.    *)
(***************************************************************************)
AtEnd == pos >= Len(tokens)

peek == tokens[pos + 1]

peekn(n) == IF pos + 1 + n <= Len(tokens) THEN tokens[pos + 1 + n].tok ELSE Tok("None")

(***************************************************************************)
(* Expression store (ExpressionData).  Handle h is entry h + 1.            *)
(***************************************************************************)
EmptyData == [expressions |-> <<>>, expression_spans |-> <<>>]

Handles(d) == 0..(Len(d.expressions) - 1)

get_exp(d, id) == d.expressions[id + 1]

get_span(d, id) == d.expression_spans[id + 1]

\* a handle one past the index the node is pushed at
next_id_off_by_one(d) == Len(d.expressions) + 1

\* the handle `alloc` returns is the index the node is pushed at
next_id(d) == Len(d.expressions)

alloc(d, expression, span) ==
    [expressions |-> Append(d.expressions, expression),
     expression_spans |-> Append(d.expression_spans, span)]

alloc_ident(d, ident, span) ==
    alloc(d, [kind |-> "Identifier", ident |-> ident], span)

alloc_literal(d, literal, span) ==
    alloc(d, [kind |-> "Literal", lit |-> literal], span)

alloc_call(d, ident, args, span) ==
    alloc(d, [kind |-> "Call", ident |-> ident, args |-> args], span)

alloc_unary_op(d, inner, span) ==
    alloc(d, [kind |-> "Invert", inner |-> inner], span)

\* a binary node that holds its own handle as right operand
alloc_bin_op_self_right(d, op, left, right) ==
    alloc(d, [kind |-> op, left |-> left, right |-> next_id(d)],
          merge(get_span(d, left), get_span(d, right)))

\* a binary node that takes the span of its left operand alone
alloc_bin_op_left_span(d, op, left, right) ==
    alloc(d, [kind |-> op, left |-> left, right |-> right], get_span(d, left))

alloc_bin_op(d, op, left, right) ==
    alloc(d, [kind |-> op, left |-> left, right |-> right],
          merge(get_span(d, left), get_span(d, right)))

(***************************************************************************)
(* Operators of the parser.                                                *)
(***************************************************************************)
\* the match of try_parse_bin_op: operator token -> BinaryOp
bin_op_of(kind) ==
    CASE kind = "LogicalOr" -> "LogicalOr"
      [] kind = "LogicalAnd" -> "LogicalAnd"
      [] kind = "BitOr" -> "BitOr"
      [] kind = "BitXor" -> "BitXor"
      [] kind = "BitAnd" -> "BitAnd"
      [] kind = "EQ" -> "Equals"
      [] kind = "NEQ" -> "NotEquals"
      [] kind = "LT" -> "LessThan"
      [] kind = "LTE" -> "LessThanEqual"
      [] kind = "GT" -> "GreaterThan"
      [] kind = "GTE" -> "GreaterThanEqual"
      [] kind = "BitShiftL" -> "BitShiftL"
      [] kind = "BitShiftR" -> "BitShiftR"
      [] kind = "ArithShiftR" -> "ArithShiftR"
      [] kind = "Add" -> "Add"
      [] kind = "Sub" -> "Subtract"
      [] kind = "Mult" -> "Multiply"
      [] kind = "Div" -> "Divide"
      [] kind = "Mod" -> "Modulo"
      [] OTHER -> "None"

\* Some(op) with the operator consumed, or None with the cursor untouched
try_parse_bin_op ==
    IF AtEnd \/ bin_op_of(peekn(0).kind) = "None"
    THEN [op |-> "None", pos |-> pos]
    ELSE [op |-> bin_op_of(peek.tok.kind), pos |-> pos + 1]

\* the table with the additive and the multiplicative tiers exchanged
infix_binding_power_swapped(op) ==
    CASE op = "LogicalOr" -> <<10, 1>>
      [] op = "LogicalAnd" -> <<20, 21>>
      [] op = "BitOr" -> <<30, 31>>
      [] op = "BitXor" -> <<40, 41>>
      [] op = "BitAnd" -> <<50, 51>>
      [] op \in {"Equals", "NotEquals"} -> <<60, 61>>
      [] op \in {"LessThan", "LessThanEqual", "GreaterThan", "GreaterThanEqual"} -> <<70, 71>>
      [] op \in {"BitShiftL", "BitShiftR", "ArithShiftR"} -> <<80, 81>>
      [] op \in {"Add", "Subtract"} -> <<100, 101>>
      [] op \in {"Multiply", "Divide", "Modulo"} -> <<90, 91>>

infix_binding_power(op) ==
    CASE op = "LogicalOr" -> <<10, 1>>
      [] op = "LogicalAnd" -> <<20, 21>>
      [] op = "BitOr" -> <<30, 31>>
      [] op = "BitXor" -> <<40, 41>>
      [] op = "BitAnd" -> <<50, 51>>
      [] op \in {"Equals", "NotEquals"} -> <<60, 61>>
      [] op \in {"LessThan", "LessThanEqual", "GreaterThan", "GreaterThanEqual"} -> <<70, 71>>
      [] op \in {"BitShiftL", "BitShiftR", "ArithShiftR"} -> <<80, 81>>
      [] op \in {"Add", "Subtract"} -> <<90, 91>>
      [] op \in {"Multiply", "Divide", "Modulo"} -> <<100, 101>>

\* a match that sends a string literal to the generic unexpected-token error
literal_of_unexpected(tok) ==
    CASE tok.kind \in IntLiteralTokens -> [type |-> "Integer", value |-> tok.value]
      [] tok.kind = "DecFloatLiteral" -> [type |-> "Float", float |-> tok.float]
      [] OTHER -> [type |-> "UnexpectedToken"]

\* the match of parse_literal: token -> Literal ("Unsupported" and
\* "UnexpectedToken" are its two error returns)
literal_of(tok) ==
    CASE tok.kind = "StringLiteral" -> [type |-> "Unsupported"]
      [] tok.kind \in IntLiteralTokens -> [type |-> "Integer", value |-> tok.value]
      [] tok.kind = "DecFloatLiteral" -> [type |-> "Float", float |-> tok.float]
      [] OTHER -> [type |-> "UnexpectedToken"]

(***************************************************************************)
(* Call frames.                                                            *)
(***************************************************************************)
PrattFrame(min_bp) ==
    [fn |-> "pratt_parse", pc |-> "leaf", min_bp |-> min_bp, lhs |-> NoId,
     op |-> "None", checkpoint |-> pos]

ParenFrame(left) == [fn |-> "parse_parenthetical", left |-> left]

CallFrame(ident, lparen) ==
    [fn |-> "parse_call", ident |-> ident, lparen |-> lparen, args |-> <<>>]

Top == stack[Len(stack)]

Pop == SubSeq(stack, 1, Len(stack) - 1)

SetTop(frame) == [stack EXCEPT ![Len(stack)] = frame]

InFrame(fn) == status = "running" /\ stack # <<>> /\ Top.fn = fn

NoErr == [kind |-> "None", at |-> 0]

\* Err(..) of kind `kind`, raised at token index `at`, leaves through every
\* caller's `?` and is what parse_expression returns
Fail(kind, at) ==
    /\ status' = "err"
    /\ err' = [kind |-> kind, at |-> at]
    /\ stack' = <<>>
    /\ ret' = NoId
    /\ result' = NoId

\* Ok(id) of the innermost call: to its caller, or out of parse_expression
Return(id) ==
    /\ stack' = Pop
    /\ IF Len(stack) = 1
       THEN status' = "ok" /\ result' = id /\ ret' = NoId
       ELSE ret' = id /\ UNCHANGED <<status, result>>
    /\ UNCHANGED err

(***************************************************************************)
(* The parser, one action per step.                                        *)
(***************************************************************************)
\* parse_expression: pratt_parse(input, data, 0)
ParseExpression ==
    /\ status = "ready"
    /\ status' = "running"
    /\ stack' = <<PrattFrame(0)>>
    /\ parses' = parses + 1
    /\ before' = data
    /\ UNCHANGED <<tokens, pos, data, ret, result, err, prev, cmp>>

AtLeaf == InFrame("pratt_parse") /\ Top.pc = "leaf"

\* parse_leaf, `input.peek()?` at the end of the input
LeafAtEnd ==
    /\ AtLeaf
    /\ AtEnd
    /\ Fail("EndOfInput", pos + 1)
    /\ UNCHANGED <<tokens, pos, data, parses, before, prev, cmp>>

\* parse_leaf on '(': parse_parenthetical consumes it and calls parse_expression
ParseParenthetical ==
    /\ AtLeaf
    /\ ~AtEnd
    /\ peek.tok.kind = "LParen"
    /\ pos' = pos + 1
    /\ stack' = SetTop([Top EXCEPT !.pc = "leaf_wait"])
                \o <<ParenFrame(peek.span), [PrattFrame(0) EXCEPT !.checkpoint = pos + 1]>>
    /\ UNCHANGED <<tokens, data, ret, status, result, err, parses, before, prev, cmp>>

IsCallAhead == peekn(0).kind = "Identifier" /\ peekn(1).kind = "LParen"

\* parse_leaf on identifier '(': parse_call consumes both and parses the first
\* argument
ParseCall ==
    /\ AtLeaf
    /\ ~AtEnd
    /\ peek.tok.kind # "LParen"
    /\ IsCallAhead
    /\ pos' = pos + 2
    /\ stack' = SetTop([Top EXCEPT !.pc = "leaf_wait"])
                \o <<CallFrame(peek.tok.name, tokens[pos + 2].span),
                     [PrattFrame(0) EXCEPT !.checkpoint = pos + 2]>>
    /\ UNCHANGED <<tokens, data, ret, status, result, err, parses, before, prev, cmp>>

\* parse_leaf on a bare identifier: parse_ident_expr
ParseIdentExpr ==
    /\ AtLeaf
    /\ ~AtEnd
    /\ peek.tok.kind = "Identifier"
    /\ ~IsCallAhead
    /\ pos' = pos + 1
    /\ data' = alloc_ident(data, peek.tok.name, peek.span)
    /\ stack' = SetTop([Top EXCEPT !.pc = "loop", !.lhs = next_id(data)])
    /\ UNCHANGED <<tokens, ret, status, result, err, parses, before, prev, cmp>>

\* parse_leaf on anything else: parse_literal
ParseLiteral ==
    /\ AtLeaf
    /\ ~AtEnd
    /\ peek.tok.kind \notin {"LParen", "Identifier"}
    /\ pos' = pos + 1
    /\ LET literal == literal_of(peek.tok) IN
       IF literal.type \in {"Unsupported", "UnexpectedToken"}
       THEN /\ Fail(literal.type, pos + 1)
            /\ UNCHANGED data
       ELSE /\ data' = alloc_literal(data, literal, peek.span)
            /\ stack' = SetTop([Top EXCEPT !.pc = "loop", !.lhs = next_id(data)])
            /\ UNCHANGED <<ret, status, result, err>>
    /\ UNCHANGED <<tokens, parses, before, prev, cmp>>

\* the leaf of pratt_parse came back from parse_parenthetical or parse_call
LeafReturned ==
    /\ InFrame("pratt_parse")
    /\ Top.pc = "leaf_wait"
    /\ ret # NoId
    /\ stack' = SetTop([Top EXCEPT !.pc = "loop", !.lhs = ret])
    /\ ret' = NoId
    /\ UNCHANGED <<tokens, pos, data, status, result, err, parses, before, prev, cmp>>

AtLoop == InFrame("pratt_parse") /\ Top.pc = "loop"

\* pratt_parse loop: no binary operator next, break and return lhs
LoopNoOperator ==
    /\ AtLoop
    /\ try_parse_bin_op.op = "None"
    /\ pos' = try_parse_bin_op.pos
    /\ Return(Top.lhs)
    /\ UNCHANGED <<tokens, data, parses, before, prev, cmp>>

\* a pratt_parse loop that breaks on a looser operator without restoring the
\* checkpoint: the operator stays consumed
LoopNoRestore ==
    /\ AtLoop
    /\ try_parse_bin_op.op # "None"
    /\ infix_binding_power(try_parse_bin_op.op)[1] < Top.min_bp
    /\ pos' = try_parse_bin_op.pos
    /\ Return(Top.lhs)
    /\ UNCHANGED <<tokens, data, parses, before, prev, cmp>>

\* pratt_parse loop: the operator binds looser than min_bp, restore the
\* checkpoint, break and return lhs
LoopRestore ==
    /\ AtLoop
    /\ try_parse_bin_op.op # "None"
    /\ infix_binding_power(try_parse_bin_op.op)[1] < Top.min_bp
    /\ LET checkpoint == pos IN pos' = checkpoint
    /\ Return(Top.lhs)
    /\ UNCHANGED <<tokens, data, parses, before, prev, cmp>>

\* pratt_parse loop: the operator is consumed and the right operand parsed by
\* pratt_parse(r_bp)
LoopRecurse ==
    /\ AtLoop
    /\ try_parse_bin_op.op # "None"
    /\ LET bp == infix_binding_power(try_parse_bin_op.op) IN
        /\ ~(bp[1] < Top.min_bp)
        /\ pos' = try_parse_bin_op.pos
        /\ stack' = SetTop([Top EXCEPT !.pc = "rhs_wait", !.op = try_parse_bin_op.op])
                    \o <<[PrattFrame(bp[2]) EXCEPT !.checkpoint = try_parse_bin_op.pos]>>
    /\ UNCHANGED <<tokens, data, ret, status, result, err, parses, before, prev, cmp>>

\* pratt_parse loop: lhs = data.alloc_bin_op(op, lhs, rhs); get_span unwraps
FoldBinOp ==
    /\ InFrame("pratt_parse")
    /\ Top.pc = "rhs_wait"
    /\ ret # NoId
    /\ IF {Top.lhs, ret} \subseteq Handles(data)
       THEN /\ data' = alloc_bin_op(data, Top.op, Top.lhs, ret)
            /\ stack' = SetTop([Top EXCEPT !.pc = "loop", !.lhs = next_id(data),
                                           !.op = "None", !.checkpoint = pos])
            /\ ret' = NoId
            /\ UNCHANGED status
       ELSE /\ status' = "panic"
            /\ UNCHANGED <<data, stack, ret>>
    /\ UNCHANGED <<tokens, pos, result, err, parses, before, prev, cmp>>

\* a parse_parenthetical that represents the parentheses: it allocates a copy
\* of the inner node spanning '(' to ')' and returns that
ParenCloseWrapped ==
    /\ InFrame("parse_parenthetical")
    /\ ret # NoId
    /\ ~AtEnd
    /\ peek.tok.kind = "RParen"
    /\ pos' = pos + 1
    /\ data' = alloc(data, get_exp(data, ret), merge(Top.left, peek.span))
    /\ Return(Len(data.expressions))
    /\ UNCHANGED <<tokens, parses, before, prev, cmp>>

\* parse_parenthetical after the inner expression: assert_next(RParen) holds
ParenClose ==
    /\ InFrame("parse_parenthetical")
    /\ ret # NoId
    /\ ~AtEnd
    /\ peek.tok.kind = "RParen"
    /\ pos' = pos + 1
    /\ Return(ret)
    /\ UNCHANGED <<tokens, data, parses, before, prev, cmp>>

\* parse_parenthetical after the inner expression: assert_next(RParen) fails
ParenUnclosed ==
    /\ InFrame("parse_parenthetical")
    /\ ret # NoId
    /\ peekn(0).kind # "RParen"
    /\ IF AtEnd THEN pos' = pos /\ Fail("EndOfInput", pos + 1)
                ELSE pos' = pos + 1 /\ Fail("UnexpectedToken", pos + 1)
    /\ UNCHANGED <<tokens, data, parses, before, prev, cmp>>

AfterArg == InFrame("parse_call") /\ ret # NoId

\* parse_call loop: args.push(..), then ',' continues with the next argument
CallComma ==
    /\ AfterArg
    /\ ~AtEnd
    /\ peek.tok.kind = "Comma"
    /\ pos' = pos + 1
    /\ stack' = SetTop([Top EXCEPT !.args = Append(Top.args, ret)])
                \o <<[PrattFrame(0) EXCEPT !.checkpoint = pos + 1]>>
    /\ ret' = NoId
    /\ UNCHANGED <<tokens, data, status, result, err, parses, before, prev, cmp>>

\* parse_call loop: args.push(..), then ')' ends the list and the call node is
\* allocated with span merge(lparen, rparen)
CallClose ==
    /\ AfterArg
    /\ ~AtEnd
    /\ peek.tok.kind = "RParen"
    /\ pos' = pos + 1
    /\ data' = alloc_call(data, Top.ident, Append(Top.args, ret),
                          merge(Top.lparen, peek.span))
    /\ Return(next_id(data))
    /\ UNCHANGED <<tokens, parses, before, prev, cmp>>

\* parse_call loop: `input.next()?` fails or the token is neither ',' nor ')'
CallUnexpected ==
    /\ AfterArg
    /\ peekn(0).kind \notin {"Comma", "RParen"}
    /\ IF AtEnd THEN pos' = pos /\ Fail("EndOfInput", pos + 1)
                ELSE pos' = pos + 1 /\ Fail("UnexpectedToken", pos + 1)
    /\ UNCHANGED <<tokens, data, parses, before, prev, cmp>>

NoPrev == [result |-> NoId, nodes |-> 0]

\* The caller parses the expression it has just parsed once more, now between
\* parentheses, into the same store (as the tests of the parser do with one
\* `data` for several sources).
ParseParenthesized ==
    /\ status = "ok"
    /\ pos = Len(tokens)
    /\ parses < MaxParses
    /\ tokens' = Parenthesize(tokens)
    /\ pos' = 0
    /\ status' = "ready"
    /\ prev' = [result |-> result, nodes |-> Len(data.expressions) - Len(before.expressions)]
    /\ result' = NoId
    /\ UNCHANGED <<data, stack, ret, err, parses, before, cmp>>

NoCmp == [a |-> NoId, b |-> NoId, eq |-> FALSE]

InitParse ==
    /\ tokens \in {Lex(src) : src \in Sources}
    /\ pos = 0
    /\ data = EmptyData
    /\ stack = <<>>
    /\ ret = NoId
    /\ status = "ready"
    /\ result = NoId
    /\ err = NoErr
    /\ parses = 0
    /\ before = EmptyData
    /\ prev = NoPrev
    /\ cmp = NoCmp

ParserStep ==
    \/ ParseExpression
    \/ LeafAtEnd
    \/ ParseParenthetical
    \/ ParseCall
    \/ ParseIdentExpr
    \/ ParseLiteral
    \/ LeafReturned
    \/ LoopNoOperator
    \/ LoopRestore
    \/ LoopRecurse
    \/ FoldBinOp
    \/ ParenClose
    \/ ParenUnclosed
    \/ CallComma
    \/ CallClose
    \/ CallUnexpected

NextParse == ParserStep \/ ParseParenthesized

SpecParse == InitParse /\ [][NextParse]_vars

\* the parser is sequential code: a step that can be taken is taken
FairSpecParse == SpecParse /\ WF_vars(ParserStep)

TypeOK == status \in {"ready", "running", "ok", "err", "panic"}

(***************************************************************************)
(* Context-sensitive equality (ContextEq<Arenas>), both handles resolved   *)
(* through the one store of the context.                                   *)
(***************************************************************************)
\* f64 `==`: NaN equals nothing, the two zeros equal each other
f64_eq(x, y) ==
    /\ x # "NaN"
    /\ y # "NaN"
    /\ (x = y \/ {x, y} = {"0.0", "-0.0"})

\* Literal::context_eq is the derived PartialEq of the enum
literal_context_eq(x, y) ==
    /\ x.type = y.type
    /\ IF x.type = "Integer" THEN x.value = y.value ELSE f64_eq(x.float, y.float)

identifier_context_eq(x, y) == x.ident = y.ident

RECURSIVE id_context_eq(_, _, _)
RECURSIVE expression_context_eq(_, _, _)

\* Call::context_eq: the callees, and the arguments zipped
call_context_eq(d, x, y) ==
    LET ident_eq == x.ident = y.ident
        args_eq == \A i \in 1..Min(Len(x.args), Len(y.args)) :
                      id_context_eq(d, x.args[i], y.args[i])
    IN  ident_eq /\ args_eq

\* unary_context_eq!: the operands, as expressions
unary_context_eq(d, x, y) ==
    expression_context_eq(d, get_exp(d, x.inner), get_exp(d, y.inner))

\* a comparison that pairs the left operand of one node with the right
\* operand of the other
binary_context_eq_crossed(d, x, y) ==
    LET left_eq == expression_context_eq(d, get_exp(d, x.left), get_exp(d, y.right))
        right_eq == expression_context_eq(d, get_exp(d, x.right), get_exp(d, y.left))
    IN  left_eq /\ right_eq

\* binary_context_eq!: the left operands and the right operands, as expressions
binary_context_eq(d, x, y) ==
    LET left_eq == expression_context_eq(d, get_exp(d, x.left), get_exp(d, y.left))
        right_eq == expression_context_eq(d, get_exp(d, x.right), get_exp(d, y.right))
    IN  left_eq /\ right_eq

\* Expression::context_eq: same variant, then the variant's own comparison
expression_context_eq(d, x, y) ==
    IF x.kind # y.kind THEN FALSE
    ELSE CASE x.kind = "Identifier" -> identifier_context_eq(x, y)
           [] x.kind = "Literal" -> literal_context_eq(x.lit, y.lit)
           [] x.kind = "Call" -> call_context_eq(d, x, y)
           [] x.kind = "Invert" -> unary_context_eq(d, x, y)
           [] OTHER -> binary_context_eq(d, x, y)

\* ExpressionId::context_eq: the spans of the two handles, then the nodes
id_context_eq(d, a, b) ==
    IF get_span(d, a) # get_span(d, b) THEN FALSE
    ELSE expression_context_eq(d, get_exp(d, a), get_exp(d, b))

(***************************************************************************)
(* Trees built by hand with the constructors of the store, and compared.   *)
(***************************************************************************)
MaxLeaves == 2       \* identifier and literal nodes allocated by hand
MaxComposites == 2   \* call, unary and binary nodes allocated by hand
MaxCallArgs == 1     \* arguments of a call allocated by hand

\* spans of the leaves built by hand
Spans == {Span(0, 1), Span(0, 2)}

\* spans handed to alloc_call and alloc_unary_op
CallerSpans == {Span(0, 2)}

Names == {"f", "g"}

Literals ==
    {[type |-> "Integer", value |-> 0],
     [type |-> "Float", float |-> "1.5"],
     [type |-> "Float", float |-> "NaN"]}

HandOps == {"Add", "Subtract"}

IsLeaf(e) == e.kind \in {"Identifier", "Literal"}

Leaves(d) == {id \in Handles(d) : IsLeaf(get_exp(d, id))}

Composites(d) == Handles(d) \ Leaves(d)

Building == status = "ready" /\ tokens = <<>>

UnchangedParser == UNCHANGED <<tokens, pos, stack, ret, result, err, parses, before, prev>>

AllocIdent ==
    /\ Building
    /\ Cardinality(Leaves(data)) < MaxLeaves
    /\ \E span \in Spans : data' = alloc_ident(data, "f", span)
    /\ UNCHANGED <<status, cmp>>
    /\ UnchangedParser

AllocLiteral ==
    /\ Building
    /\ Cardinality(Leaves(data)) < MaxLeaves
    /\ \E literal \in Literals, span \in Spans : data' = alloc_literal(data, literal, span)
    /\ UNCHANGED <<status, cmp>>
    /\ UnchangedParser

AllocCall ==
    /\ Building
    /\ Cardinality(Composites(data)) < MaxComposites
    /\ \E ident \in Names, args \in SeqsUpTo(Handles(data), MaxCallArgs),
          span \in CallerSpans :
          data' = alloc_call(data, ident, args, span)
    /\ UNCHANGED <<status, cmp>>
    /\ UnchangedParser

\* alloc_unary_op: Token::Invert allocates, any other operator token is todo!()
AllocUnaryOp ==
    /\ Building
    /\ Cardinality(Composites(data)) < MaxComposites
    /\ \E op \in {"Invert", "Sub"}, inner \in Handles(data), span \in CallerSpans :
          IF op = "Invert"
          THEN data' = alloc_unary_op(data, inner, span) /\ UNCHANGED status
          ELSE status' = "panic" /\ UNCHANGED data
    /\ UNCHANGED cmp
    /\ UnchangedParser

AllocBinOp ==
    /\ Building
    /\ Cardinality(Composites(data)) < MaxComposites
    /\ \E op \in HandOps, left \in Handles(data), right \in Handles(data) :
          data' = alloc_bin_op(data, op, left, right)
    /\ UNCHANGED <<status, cmp>>
    /\ UnchangedParser

\* a.context_eq(&b, &context) on two handles of the store
ContextEq ==
    /\ Building
    /\ \E a \in Handles(data), b \in Handles(data) :
          cmp' = [a |-> a, b |-> b, eq |-> id_context_eq(data, a, b)]
    /\ UNCHANGED <<data, status>>
    /\ UnchangedParser

InitEq ==
    /\ tokens = <<>>
    /\ pos = 0
    /\ data = EmptyData
    /\ stack = <<>>
    /\ ret = NoId
    /\ status = "ready"
    /\ result = NoId
    /\ err = NoErr
    /\ parses = 0
    /\ before = EmptyData
    /\ prev = NoPrev
    /\ cmp = NoCmp

NextEq ==
    \/ AllocIdent
    \/ AllocLiteral
    \/ AllocCall
    \/ AllocUnaryOp
    \/ AllocBinOp
    \/ ContextEq

SpecEq == InitEq /\ [][NextEq]_vars

(***************************************************************************)
(* Reading a tree out of the store.                                        *)
(***************************************************************************)
BinaryKinds == {bin_op_of(k) : k \in BinOpTokens}

\* the tree under a handle, every node with its span
RECURSIVE Tree(_, _)
Tree(d, id) ==
    LET e == get_exp(d, id) IN
    CASE e.kind = "Identifier" ->
            [kind |-> "Identifier", ident |-> e.ident, span |-> get_span(d, id)]
      [] e.kind = "Literal" ->
            [kind |-> "Literal", lit |-> e.lit, span |-> get_span(d, id)]
      [] e.kind = "Call" ->
            [kind |-> "Call", ident |-> e.ident,
             args |-> [i \in 1..Len(e.args) |-> Tree(d, e.args[i])],
             span |-> get_span(d, id)]
      [] e.kind = "Invert" ->
            [kind |-> "Invert", inner |-> Tree(d, e.inner), span |-> get_span(d, id)]
      [] OTHER ->
            [kind |-> e.kind, left |-> Tree(d, e.left), right |-> Tree(d, e.right),
             span |-> get_span(d, id)]

\* the tree under a handle: leaves with their spans, composite nodes without
RECURSIVE Shape(_, _)
Shape(d, id) ==
    LET e == get_exp(d, id) IN
    CASE e.kind = "Identifier" ->
            [kind |-> "Identifier", ident |-> e.ident, span |-> get_span(d, id)]
      [] e.kind = "Literal" ->
            [kind |-> "Literal", lit |-> e.lit, span |-> get_span(d, id)]
      [] e.kind = "Call" ->
            [kind |-> "Call", ident |-> e.ident,
             args |-> [i \in 1..Len(e.args) |-> Shape(d, e.args[i])]]
      [] e.kind = "Invert" ->
            [kind |-> "Invert", inner |-> Shape(d, e.inner)]
      [] OTHER ->
            [kind |-> e.kind, left |-> Shape(d, e.left), right |-> Shape(d, e.right)]

\* an operand token: a bare identifier or a numeric literal
IsOperand(t) ==
    t.tok.kind \in {"Identifier", "DecFloatLiteral"} \cup IntLiteralTokens

\* the leaf an operand token stands for
LeafShape(t) ==
    IF t.tok.kind = "Identifier"
    THEN [kind |-> "Identifier", ident |-> t.tok.name, span |-> t.span]
    ELSE IF t.tok.kind = "DecFloatLiteral"
    THEN [kind |-> "Literal", lit |-> [type |-> "Float", float |-> t.tok.float],
          span |-> t.span]
    ELSE [kind |-> "Literal", lit |-> [type |-> "Integer", value |-> t.tok.value],
          span |-> t.span]

BinShape(op, l, r) == [kind |-> op, left |-> l, right |-> r]

Finished == status \in {"ok", "err"}

\* the precedence tiers, loosest first
Tier(op) ==
    CASE op = "LogicalOr" -> 1
      [] op = "LogicalAnd" -> 2
      [] op = "BitOr" -> 3
      [] op = "BitXor" -> 4
      [] op = "BitAnd" -> 5
      [] op \in {"Equals", "NotEquals"} -> 6
      [] op \in {"LessThan", "LessThanEqual", "GreaterThan", "GreaterThanEqual"} -> 7
      [] op \in {"BitShiftL", "BitShiftR", "ArithShiftR"} -> 8
      [] op \in {"Add", "Subtract"} -> 9
      [] op \in {"Multiply", "Divide", "Modulo"} -> 10

\* the source is "a op1 b op2 c"
IsTwoOperators ==
    /\ Len(tokens) = 5
    /\ \A i \in {1, 3, 5} : IsOperand(tokens[i])
    /\ \A i \in {2, 4} : tokens[i].tok.kind \in BinOpTokens

Op1 == bin_op_of(tokens[2].tok.kind)

Op2 == bin_op_of(tokens[4].tok.kind)

LeftNested ==
    BinShape(Op2, BinShape(Op1, LeafShape(tokens[1]), LeafShape(tokens[3])),
             LeafShape(tokens[5]))

RightNested ==
    BinShape(Op1, LeafShape(tokens[1]),
             BinShape(Op2, LeafShape(tokens[3]), LeafShape(tokens[5])))

\* C1 (precedence): a finished parse of "a op1 b op2 c" with op1 and op2 of
\* different tiers succeeded and grouped the operands around the operator of
\* the tighter tier: op1(a, op2(b, c)) when op2 is tighter, op2(op1(a, b), c)
\* when op1 is tighter.
C1_Precedence ==
    (Finished /\ IsTwoOperators /\ Tier(Op1) # Tier(Op2)) =>
        /\ status = "ok"
        /\ Shape(data, result) = IF Tier(Op1) < Tier(Op2) THEN RightNested ELSE LeftNested

C1_Witness ==
    /\ status = "ok"
    /\ IsTwoOperators
    /\ Tier(Op1) < Tier(Op2)
    /\ Op1 = "LogicalOr"
    /\ Shape(data, result) = RightNested

\* C2 (left-associativity), as claimed: a finished parse of "a op1 b op2 c"
\* with op1 and op2 of the same tier, LogicalOr included, succeeded with the
\* left-nested tree op2(op1(a, b), c).
C2_LeftAssociative ==
    (Finished /\ IsTwoOperators /\ Tier(Op1) = Tier(Op2)) =>
        /\ status = "ok"
        /\ Shape(data, result) = LeftNested

\* the matching ')' of the '(' at index l, 0 if there is none
RECURSIVE Closing(_, _, _)
Closing(ts, i, depth) ==
    IF i > Len(ts) THEN 0
    ELSE IF ts[i].tok.kind = "LParen" THEN Closing(ts, i + 1, depth + 1)
    ELSE IF ts[i].tok.kind = "RParen"
         THEN IF depth = 1 THEN i ELSE Closing(ts, i + 1, depth - 1)
    ELSE Closing(ts, i + 1, depth)

MatchingParen(ts, l) == Closing(ts, l + 1, 1)

BinarySpanComposed(id) ==
    LET e == get_exp(data, id)
        l == get_span(data, e.left)
        r == get_span(data, e.right)
    IN  get_span(data, id) = Span(Min(l.start, r.start), Max(l.end, r.end))

CallSpanComposed(id) ==
    \E l \in 2..Len(tokens) :
        /\ tokens[l].tok.kind = "LParen"
        /\ tokens[l - 1].tok = Ident(get_exp(data, id).ident)
        /\ MatchingParen(tokens, l) # 0
        /\ LET open == tokens[l].span
               close == tokens[MatchingParen(tokens, l)].span
           IN  get_span(data, id) = Span(Min(open.start, close.start), Max(open.end, close.end))

\* C3 (span composition): after a successful parse every binary node of the
\* store has the span {min of starts, max of ends} of its two operands, and
\* every call node the span {min of starts, max of ends} of the '(' after its
\* callee and the ')' matching it.
C3_SpanComposition ==
    status = "ok" =>
        \A id \in Handles(data) :
            /\ get_exp(data, id).kind \in BinaryKinds => BinarySpanComposed(id)
            /\ get_exp(data, id).kind = "Call" => CallSpanComposed(id)

C3_Witness ==
    /\ status = "ok"
    /\ \E id \in Handles(data) :
        /\ get_exp(data, id).kind = "Call"
        /\ \E i \in 1..Len(get_exp(data, id).args) :
              get_exp(data, get_exp(data, id).args[i]).kind \in BinaryKinds

\* the source is "f ( e1 , ... , en )", n >= 0, every ei an operand
IsSimpleCall ==
    /\ Len(tokens) >= 3
    /\ tokens[1].tok.kind = "Identifier"
    /\ tokens[2].tok.kind = "LParen"
    /\ tokens[Len(tokens)].tok.kind = "RParen"
    /\ Len(tokens) > 3 => Len(tokens) % 2 = 0
    /\ \A i \in 3..(Len(tokens) - 1) :
          IF i % 2 = 1 THEN IsOperand(tokens[i]) ELSE tokens[i].tok.kind = "Comma"

ArgCount == (Len(tokens) - 2) \div 2

\* C7 (call arguments), as claimed: a finished parse of "f(e1, ..., en)",
\* n >= 0, succeeded with a Call node of callee f whose argument list is
\* e1..en in source order, the empty list for "f()".
C7_CallArguments ==
    (Finished /\ IsSimpleCall) =>
        /\ status = "ok"
        /\ Shape(data, result) =
              [kind |-> "Call", ident |-> tokens[1].tok.name,
               args |-> [i \in 1..ArgCount |-> LeafShape(tokens[2 * i + 1])]]

\* C7 for n >= 1 only
C7_NonEmptyCallArguments == ArgCount >= 1 => C7_CallArguments

\* the handle as counted from the first node the parse allocated
Relative(id, first) == id - first

\* C8 (parentheses are transparent): when an expression that parsed with all
\* its tokens consumed is parsed again between parentheses, the parse
\* succeeds, consumes both parentheses, allocates as many nodes as the parse
\* of the expression alone did, and returns the handle at the same place
\* among them, with the same tree: kinds, values, children and spans.
C8_ParenthesesTransparent ==
    (Finished /\ parses >= 2) =>
        /\ status = "ok"
        /\ pos = Len(tokens)
        /\ Len(data.expressions) - Len(before.expressions) = prev.nodes
        /\ Relative(result, Len(before.expressions))
              = Relative(prev.result, Len(before.expressions) - prev.nodes)
        /\ Tree(data, result) = Tree(data, prev.result)

C8_Witness ==
    /\ status = "ok"
    /\ parses = 2
    /\ tokens[1].tok.kind = "LParen"
    /\ get_exp(data, result).kind = "Call"
    /\ \E i \in 1..Len(get_exp(data, result).args) :
          get_exp(data, get_exp(data, result).args[i]).kind \in BinaryKinds
    /\ Tree(data, result) = Tree(data, prev.result)

\* C9 (no fatal abort): the parser never panics; an error outcome carries a
\* typed error and no handle, a success a handle of the store; and every
\* parse that has started ends with one of the two.
C9_AlwaysReturns ==
    /\ [](status # "panic")
    /\ [](status = "err" => result = NoId /\ err.kind # "None")
    /\ [](status = "ok" => result \in Handles(data) /\ err.kind = "None")
    /\ (status = "running") ~> Finished

C9_Witness ==
    /\ status = "err"
    /\ err.kind = "UnexpectedToken"
    /\ tokens[err.at].tok.kind = "Invert"

\* the token the parse failed at is a string literal standing where an
\* expression is expected: first in the source, or right after a binary
\* operator, a '(' or a ','
StringWhereExpressionExpected ==
    /\ status = "err"
    /\ err.at \in 1..Len(tokens)
    /\ tokens[err.at].tok.kind = "StringLiteral"
    /\ err.at > 1 =>
          tokens[err.at - 1].tok.kind \in BinOpTokens \cup {"LParen", "Comma"}

\* C10 (string literal rejected), as claimed: the parse fails with the
\* unsupported-construct error and the store holds what it held before the
\* parse.
C10_StringLiteralLeavesStore ==
    StringWhereExpressionExpected =>
        /\ err.kind = "Unsupported"
        /\ data = before

\* C10, amended: the parse fails with the unsupported-construct error, and the
\* failing step allocates nothing: the store is the one the parse had built
\* when it reached the string literal.
C10_StringLiteralUnsupported ==
    [][(status # "err" /\ StringWhereExpressionExpected') =>
            (err'.kind = "Unsupported" /\ data' = data)]_vars

C10_Witness ==
    /\ StringWhereExpressionExpected
    /\ err.kind = "Unsupported"
    /\ Len(data.expressions) > Len(before.expressions)

(***************************************************************************)
(* Claims about context_eq.                                                *)
(***************************************************************************)
Compared == cmp.a # NoId

CmpLeft == get_exp(data, cmp.a)

CmpRight == get_exp(data, cmp.b)

\* C4 (calls), as claimed: two Call nodes (compared through handles of equal
\* span) are context_eq exactly when their callees are equal, their argument
\* lists have the same length and the arguments are context_eq position by
\* position.
C4_CallEquality ==
    (/\ Compared
     /\ CmpLeft.kind = "Call"
     /\ CmpRight.kind = "Call"
     /\ get_span(data, cmp.a) = get_span(data, cmp.b)) =>
        (cmp.eq <=>
            /\ CmpLeft.ident = CmpRight.ident
            /\ Len(CmpLeft.args) = Len(CmpRight.args)
            /\ \A i \in 1..Len(CmpLeft.args) :
                  i <= Len(CmpRight.args)
                  /\ id_context_eq(data, CmpLeft.args[i], CmpRight.args[i]))

\* every pair of corresponding handles under a and b has equal spans
RECURSIVE SameSpans(_, _, _)
SameSpans(d, a, b) ==
    LET x == get_exp(d, a)
        y == get_exp(d, b)
    IN  /\ get_span(d, a) = get_span(d, b)
        /\ x.kind = y.kind =>
              CASE x.kind \in {"Identifier", "Literal"} -> TRUE
                [] x.kind = "Call" ->
                      \A i \in 1..Min(Len(x.args), Len(y.args)) :
                          SameSpans(d, x.args[i], y.args[i])
                [] x.kind = "Invert" -> SameSpans(d, x.inner, y.inner)
                [] OTHER -> SameSpans(d, x.left, y.left) /\ SameSpans(d, x.right, y.right)

\* C5 (span-sensitive at every depth), as claimed: two handles are context_eq
\* only if their spans are equal and so are the spans of every pair of
\* corresponding descendants.
C5_SpansComparedAtEveryDepth ==
    (Compared /\ cmp.eq) => SameSpans(data, cmp.a, cmp.b)

\* the tree under a handle holds a NaN float literal
RECURSIVE HasNaN(_, _)
HasNaN(d, id) ==
    LET e == get_exp(d, id) IN
    CASE e.kind = "Identifier" -> FALSE
      [] e.kind = "Literal" -> e.lit.type = "Float" /\ e.lit.float = "NaN"
      [] e.kind = "Call" -> \E i \in 1..Len(e.args) : HasNaN(d, e.args[i])
      [] e.kind = "Invert" -> HasNaN(d, e.inner)
      [] OTHER -> HasNaN(d, e.left) \/ HasNaN(d, e.right)

\* C6 (reflexive), as claimed: a handle compared with itself is context_eq,
\* whatever its tree holds.
C6_Reflexive ==
    (Compared /\ cmp.a = cmp.b) => cmp.eq

\* C6, amended: a handle compared with itself is context_eq when no float
\* literal of its tree is NaN.
C6_ReflexiveWithoutNaN ==
    (Compared /\ cmp.a = cmp.b /\ ~HasNaN(data, cmp.a)) => cmp.eq

C6_Witness ==
    /\ Compared
    /\ cmp.a = cmp.b
    /\ cmp.eq
    /\ CmpLeft.kind \in BinaryKinds
    /\ CmpLeft.left # CmpLeft.right
    /\ get_exp(data, CmpLeft.left).kind = "Literal"
    /\ get_exp(data, CmpLeft.left).lit.type = "Float"

(***************************************************************************)
(* Allocation order.                                                       *)
(***************************************************************************)
\* the handles a node holds: operands of a binary or unary node, arguments of
\* a call
Children(e) ==
    CASE e.kind \in {"Identifier", "Literal"} -> {}
      [] e.kind = "Call" -> {e.args[i] : i \in 1..Len(e.args)}
      [] e.kind = "Invert" -> {e.inner}
      [] OTHER -> {e.left, e.right}

\* every child handle of every node is strictly smaller than the node's handle
ChildrenAllocatedEarlier ==
    \A h \in Handles(data) : \A c \in Children(get_exp(data, h)) : c >= 0 /\ c < h

\* the handle a step that allocated hands to the parser: the new lhs of the
\* running pratt_parse, or what parse_call returns
IssuedHandle ==
    IF stack # <<>> /\ Top.fn = "pratt_parse" /\ Top.pc = "loop" /\ ret = NoId
    THEN Top.lhs
    ELSE IF status = "ok" THEN result ELSE ret

\* a step that changes the store appends exactly one node with its span,
\* leaves every earlier entry as it was, and issues the next index as handle
AllocatesNext ==
    data' # data =>
        /\ Len(data'.expressions) = Len(data.expressions) + 1
        /\ Len(data'.expression_spans) = Len(data.expression_spans) + 1
        /\ SubSeq(data'.expressions, 1, Len(data.expressions)) = data.expressions
        /\ SubSeq(data'.expression_spans, 1, Len(data.expression_spans)) = data.expression_spans
        /\ IssuedHandle' = Len(data.expressions)

\* C11 (acyclicity by allocation order): in every state during or after any
\* sequence of parses on one store, handles have been issued as 0, 1, 2, ...
\* in allocation order without reuse, and every child handle held by a node
\* is strictly smaller than the handle of the node that holds it.
C11_AllocationOrder ==
    []ChildrenAllocatedEarlier /\ [][AllocatesNext]_vars

\* a second parse on the same store has finished, and the store holds a call
\* with two arguments and a binary node allocated by the second parse
C11_Witness ==
    /\ status = "ok"
    /\ parses = 2
    /\ \E h \in Handles(data) :
          /\ get_exp(data, h).kind = "Call"
          /\ Len(get_exp(data, h).args) >= 2
    /\ \E h \in Handles(data) :
          /\ get_exp(data, h).kind \in BinaryKinds
          /\ h > prev.result

(***************************************************************************)
(* Cursor position on return from pratt_parse.                             *)
(***************************************************************************)
\* this step is a pratt_parse call returning Ok(lhs) out of its loop
PrattReturns ==
    /\ AtLoop
    /\ Len(stack') < Len(stack)
    /\ status' # "err"

\* the handle the step returns, to the caller or out of parse_expression
Returned == IF status = "ok" THEN result ELSE ret

\* token kinds an operand can end with
OperandEnds == {"Identifier", "DecFloatLiteral", "RParen"} \cup IntLiteralTokens

\* the binary operator the cursor stands at, "None" at the end of the input
\* or at any other token
OperatorAhead == bin_op_of(peekn(0).kind)

\* C12 (cursor position on return from pratt_parse): when pratt_parse(min_bp)
\* returns Ok(lhs), no token has been consumed since the last operand of lhs,
\* and the token the cursor stands at is not part of lhs: the input has ended,
\* or the token is not a binary operator, or it is a binary operator with
\* left_bp < min_bp, left unconsumed for the enclosing call.
C12_CursorOnReturn ==
    [][PrattReturns =>
        /\ Returned' = Top.lhs
        /\ pos' = pos
        /\ pos >= 1
        /\ tokens[pos].tok.kind \in OperandEnds
        /\ get_span(data, Top.lhs).end <= tokens[pos].span.end
        /\ OperatorAhead' # "None" =>
              infix_binding_power(OperatorAhead')[1] < Top.min_bp]_vars

\* the right operand of a binary operator has been returned with the cursor
\* restored to a looser operator, which the enclosing pratt_parse is about to
\* see
C12_Witness ==
    /\ InFrame("pratt_parse")
    /\ Top.pc = "rhs_wait"
    /\ ret # NoId
    /\ OperatorAhead # "None"
    /\ infix_binding_power(OperatorAhead)[1] < infix_binding_power(Top.op)[2]

====
